---- MODULE Spec2Model ----
(***************************************************************************)
(* cotton's single-file script runner (src/src/main.rs): the project cache *)
(* of one script, the state evaluator, sync (update), build with staging   *)
(* by rename, execution, clean, and the invocations that drive them.       *)
(*                                                                         *)
(* File contents are sequences of one-character strings.  The filesystem   *)
(* is the script file, the project directory of that script in the cache   *)
(* (src/main.rs, Cargo.toml, target/release/<name>, <name>), and a clock   *)
(* that stamps modification times.                                         *)
(***************************************************************************)
EXTENDS Integers, Sequences, FiniteSets, TLC

\* ------------------------------------------------------------------ bounds
MaxTime == 1
MaxRuns == 2
MaxEdits == 2
MaxLines == 3
MaxDepth == 2
MaxBytes == 2

\* ------------------------------------------------------------ text helpers
IsSpace(c) == c \in {" ", "\t", "\r", "\n"}

RECURSIVE TrimStart(_)
TrimStart(l) ==
  IF l = <<>> THEN <<>>
  ELSE IF IsSpace(Head(l)) THEN TrimStart(Tail(l)) ELSE l

RECURSIVE TrimEnd(_)
TrimEnd(l) ==
  IF l = <<>> THEN <<>>
  ELSE IF IsSpace(l[Len(l)]) THEN TrimEnd(SubSeq(l, 1, Len(l) - 1)) ELSE l

\* str::trim
Trim(l) == TrimEnd(TrimStart(l))

\* One line without its terminator: a trailing "\r" belongs to the terminator.
StripCR(l) ==
  IF l # <<>> /\ l[Len(l)] = "\r" THEN SubSeq(l, 1, Len(l) - 1) ELSE l

\* str::lines: split at "\n"; a final line needs no terminator and a trailing
\* terminator opens no empty last line.
RECURSIVE LinesFrom(_, _)
LinesFrom(text, cur) ==
  IF text = <<>> THEN (IF cur = <<>> THEN <<>> ELSE <<cur>>)
  ELSE IF Head(text) = "\n" THEN <<StripCR(cur)>> \o LinesFrom(Tail(text), <<>>)
  ELSE LinesFrom(Tail(text), Append(cur, Head(text)))

Lines(text) == LinesFrom(text, <<>>)

RECURSIVE SkipWhileNot(_, _)
SkipWhileNot(ls, marker) ==
  IF ls = <<>> THEN <<>>
  ELSE IF Head(ls) # marker THEN SkipWhileNot(Tail(ls), marker) ELSE ls

RECURSIVE TakeWhileNot(_, _)
TakeWhileNot(ls, marker) ==
  IF ls = <<>> THEN <<>>
  ELSE IF Head(ls) # marker THEN <<Head(ls)>> \o TakeWhileNot(Tail(ls), marker)
  ELSE <<>>

\* Mutation: the marker line is not skipped.
Skip1_none(ls) == ls

\* Iterator::skip(1)
Skip1(ls) == IF ls = <<>> THEN <<>> ELSE Tail(ls)

RECURSIVE Join(_, _)
Join(ls, sep) ==
  IF ls = <<>> THEN <<>>
  ELSE IF Len(ls) = 1 THEN Head(ls)
  ELSE Head(ls) \o sep \o Join(Tail(ls), sep)

TrimAll(ls) == [i \in 1..Len(ls) |-> Trim(ls[i])]

MarkerOpen == <<"/", "*", " ", "C", "a", "r", "g", "o", ".", "t", "o", "m", "l">>
MarkerClose == <<"*", "/">>

\* Cargo::manifest_content on a script text: [ok, val].
manifest_content(text) ==
  LET manifest ==
        Join(TakeWhileNot(Skip1(SkipWhileNot(TrimAll(Lines(text)), MarkerOpen)),
                          MarkerClose), <<"\n">>)
  IN IF manifest = <<>> THEN [ok |-> FALSE, val |-> <<>>]
     ELSE [ok |-> TRUE, val |-> manifest]

\* --------------------------------------------------------------- digests
RECURSIVE Concat(_)
Concat(parts) == IF parts = <<>> THEN <<>> ELSE Head(parts) \o Concat(Tail(parts))

\* SHA-256 followed by hex encoding, as an injective code of the bytes hashed
\* (collisions of SHA-256 are outside the model).
Sha256Hex(bytes) == <<"sha256">> \o bytes

\* Mutation: every part is hashed with its length in front.
hex_digest_framed(parts) ==
  Sha256Hex(Concat([i \in 1..Len(parts) |-> <<ToString(Len(parts[i]))>> \o parts[i]]))

\* Sha256::new and Sha256::update: the running hash, as the bytes absorbed.
Sha256New == <<>>

\* Mutation: an update forgets what was absorbed before.
Sha256Update_reset(h, buf) == buf

Sha256Update(h, buf) == h \o buf

\* Digest::from_buffers (hashing.rs) and the fold of hex_digest (digest.rs):
\* every buffer is fed to the running hash h, in order, then the hash is
\* finalized and hex encoded.
RECURSIVE from_buffers(_, _)
from_buffers(h, parts) ==
  IF parts = <<>> THEN Sha256Hex(h)
  ELSE from_buffers(Sha256Update(h, Head(parts)), Tail(parts))

\* hex_digest: every part is fed to one running hash, in order.
hex_digest(parts) == from_buffers(Sha256New, parts)

\* hex_digest_file (digest.rs) and io::copy (hashing.rs): the file is read
\* through a buffer of k bytes, and each filled buffer is fed to the hash h,
\* until a read returns nothing.
RECURSIVE read_chunks(_, _, _)
read_chunks(h, bytes, k) ==
  IF bytes = <<>> THEN Sha256Hex(h)
  ELSE LET len == IF Len(bytes) < k THEN Len(bytes) ELSE k
       IN read_chunks(Sha256Update(h, SubSeq(bytes, 1, len)),
                      SubSeq(bytes, len + 1, Len(bytes)), k)

\* hex_digest_file on a file holding `bytes`.
hex_digest_file(bytes) == Sha256Hex(bytes)

\* String slicing h[0..n] of a hex digest, as an injective code of the digest
\* (two digests that agree on their first n characters are outside the model).
HexPrefix(h, n) == <<"[0..", ToString(n), "]">> \o h

\* ------------------------------------------------------------------ paths
\* A canonical script path: the names of its directories from the root, and
\* its file name as characters.
RECURSIVE ParentStr(_)
\* Path::parent().to_str() of a canonical path.
ParentStr(dir) ==
  IF dir = <<>> THEN <<"/">>
  ELSE IF Len(dir) = 1 THEN <<"/", dir[1]>>
  ELSE ParentStr(SubSeq(dir, 1, Len(dir) - 1)) \o <<"/", dir[Len(dir)]>>

\* Path::file_stem: the file name up to its last ".", or whole when it has none
\* or only a leading one.
file_stem(name) ==
  LET dots == {i \in 1..Len(name) : name[i] = "."}
      last == IF dots = {} THEN 0 ELSE CHOOSE i \in dots : \A j \in dots : j <= i
  IN IF last <= 1 THEN name ELSE SubSeq(name, 1, last - 1)

\* Cargo::binary_path: the file name of the staged artifact of the script file
\* `name` is the project name, the stem of the script file.
binary_name(name) == file_stem(name)

\* exec (cmd.rs, process.rs): the arguments given to execvp for the program
\* with file name `program`; argument zero is program.file_stem().
exec_argv(program, args) == <<file_stem(program)>> \o args

\* app_cache(subdir): the cache directory of the application joined with subdir.
app_cache(subdir) == <<"<cache>", subdir>>

\* Mutation: the project is named by the whole file name.
project_path_file_name(path) ==
  app_cache(<<"project-", HexPrefix(hex_digest(<<ParentStr(path.dir)>>), 16),
              "-", path.file>>)

\* Mutation: the project is named by the stem alone.
project_path_stem_only(path) ==
  app_cache(<<"project-", <<>>, "-", file_stem(path.file)>>)

\* Cargo::new: format!("project-{}-{}", parent_path_digest, project_name)
\* under the cache directory.
project_path(path) ==
  app_cache(<<"project-", HexPrefix(hex_digest(<<ParentStr(path.dir)>>), 16),
              "-", file_stem(path.file)>>)

\* ------------------------------------------------------------ file contents
\* Two scripts with different manifest blocks (the second with padded marker
\* lines) and the main.rs / Cargo.toml that `cargo init` writes.
ScriptA == MarkerOpen \o <<"\n", "a", "\n">> \o MarkerClose \o <<"\n", "x", "\n">>
ScriptB ==
  <<" ">> \o MarkerOpen \o <<" ", "\n", "b", "\n", "\t">> \o MarkerClose \o <<"\n", "y">>
Placeholder == <<"p", "\n">>
InitManifest == <<"i", "\n">>

ScriptTexts == {ScriptA, ScriptB, Placeholder}

\* A script that is not UTF-8: "0xFF" stands for one byte no UTF-8 text holds.
NonUtf8Script == <<"0xFF", "\n">>
ValidUtf8(bytes) == \A i \in 1..Len(bytes) : bytes[i] # "0xFF"

\* ------------------------------------------------------------------ state
Procs == {"p1", "p2"}

VARIABLES
  script,     \* the script path: a file, a directory or nothing; [kind, content, mtime]
  project,    \* the script's project directory in the cache
  cacheRoot,  \* whether the cache root directory exists
  now,        \* the clock that stamps modification times
  inv,        \* per process: the invocation it runs, how far it is, what it did
              \* (quiet: nothing was changed from outside since it started)
  runs,       \* invocations started so far
  edits,      \* changes made from outside so far
  lastEnv,    \* the last change made from outside, and whether state() was
              \* UpToDate before it
  call,       \* one call of a function of the program on its own: the function,
              \* its arguments, and its value once it has returned
  app         \* APP_INFO with its mutex, and the threads that call into app_dir

vars == <<script, project, cacheRoot, now, inv, runs, edits, lastEnv, call, app>>

NoCall == [fn |-> "none", arg |-> <<>>, done |-> FALSE, ret |-> <<>>]

\* APP_INFO: Mutex<Option<AppInfo>>, None at the start and unlocked; `first` is
\* the identity of the first initializer that took the lock.
Threads == {"t1", "t2"}
NoInfo == [name |-> "-", author |-> "-"]
IdleThread == [op |-> "none", pc |-> "idle", val |-> NoInfo, seen |-> NoInfo]
NoApp ==
  [info |-> NoInfo, lock |-> "free", first |-> NoInfo,
   th |-> [t \in Threads |-> IdleThread]]

NoFile == [kind |-> "absent"]

\* A file produced by the build tool from mirrored source `src` and manifest
\* `man`; while the tool `by` is still writing it, it is not complete.
Partial(by, t) ==
  [kind |-> "file", complete |-> FALSE, by |-> by, src |-> <<>>, man |-> <<>>, mtime |-> t]
Complete(src, man, t) ==
  [kind |-> "file", complete |-> TRUE, by |-> "-", src |-> src, man |-> man, mtime |-> t]

is_file(f) == f.kind = "file"

\* The project directory: src/main.rs, Cargo.toml, Cargo.toml.orig (orig),
\* target/release/<name> (target) and <name> (binary).
NoProject ==
  [exists |-> FALSE, main |-> <<>>, manifest |-> <<>>, orig |-> FALSE,
   target |-> NoFile, binary |-> NoFile]

\* `cargo init --bin`: the package directory with Cargo.toml and src/main.rs;
\* whatever else the directory holds stays.
CargoInit(proj) ==
  [proj EXCEPT !.exists = TRUE, !.main = Placeholder, !.manifest = InitManifest]

Commands == {"implicit", "exec", "build", "check", "test", "clean", "clean_all"}

CargoStates == {"ScriptDiffers", "NoBinary", "BinaryOutdated", "UpToDate"}

\* How a tool can end without success: with an exit code other than 0, or by a
\* signal (ExitStatus::code() is None, shown as `code |-> -1`).
ToolStatuses ==
  {[kind |-> "exit", code |-> 1], [kind |-> "exit", code |-> 2],
   [kind |-> "signal", code |-> -1]}

\* What stdout_capture() collected: bytes that are UTF-8 text or are not; with
\* the output passed through nothing is collected.
Outputs == {"text", "bytes"}
IsUtf8(out) == out = "text"

NoTool == [status |-> [kind |-> "none", code |-> -1], out |-> "none"]
NoErr == [code |-> "none", output |-> "none"]
NoExit == -1

\* tool: the run of a tool that did not end with success; exit: the argument
\* of std::process::exit; err: the Problem returned by ExpressionExt::silent.
IdleInv ==
  [cmd |-> "none", pc |-> "idle", phase |-> "ensure", st |-> "none",
   inited |-> "no", wroteMain |-> FALSE, synced |-> FALSE, built |-> FALSE,
   needed0 |-> FALSE, quiet |-> TRUE, result |-> "none", ran |-> NoFile,
   tool |-> NoTool, exit |-> NoExit, err |-> NoErr]

\* ------------------------------------------------------- the state evaluator
\* Mutation: bytes that are not UTF-8 are read as text all the same.
script_content_lossy(scr) ==
  IF scr.kind = "file" THEN [ok |-> TRUE, val |-> scr.content]
  ELSE [ok |-> FALSE, val |-> <<>>]

\* Cargo::script_content: fs::read_to_string(script), an error when the script
\* is no file or does not hold UTF-8 text.
script_content(scr) ==
  IF scr.kind = "file" /\ ValidUtf8(scr.content) THEN [ok |-> TRUE, val |-> scr.content]
  ELSE [ok |-> FALSE, val |-> <<>>]

\* Mutation: a missing artifact asks for a sync too.
needs_update_nobinary(s) == s \in {"ScriptDiffers", "NoBinary"}

needs_update(s) == s = "ScriptDiffers"

\* Mutation: an up-to-date artifact is built again.
needs_build_always(s) == TRUE

\* Mutation: an outdated artifact asks for no build.
needs_build_no_outdated(s) == s \in {"ScriptDiffers", "NoBinary"}

needs_build(s) == s = "ScriptDiffers" \/ s \in {"NoBinary", "BinaryOutdated"}

\* Mutation: an artifact as old as the script counts as outdated.
state_le(scr, proj) ==
  IF ~script_content(scr).ok \/ ~proj.exists THEN "Err"
  ELSE IF hex_digest(<<scr.content>>) # hex_digest_file(proj.main) THEN "ScriptDiffers"
  ELSE IF ~is_file(proj.binary) THEN "NoBinary"
  ELSE IF proj.binary.mtime <= scr.mtime THEN "BinaryOutdated"
  ELSE "UpToDate"

\* Cargo::state on script `scr` and project `proj`; "Err" when the script or
\* src/main.rs cannot be read.
state(scr, proj) ==
  IF ~script_content(scr).ok \/ ~proj.exists THEN "Err"
  ELSE IF hex_digest(<<scr.content>>) # hex_digest_file(proj.main) THEN "ScriptDiffers"
  ELSE IF ~is_file(proj.binary) THEN "NoBinary"
  ELSE IF proj.binary.mtime < scr.mtime THEN "BinaryOutdated"
  ELSE "UpToDate"

\* Cargo::binary_built
binary_built(proj) == proj.exists /\ is_file(proj.binary)

CargoMode(cmd) == IF cmd = "implicit" THEN "Silent" ELSE "Verbose"

\* ------------------------------------------------------------ invocations
Set(p, rec) == inv' = [inv EXCEPT ![p] = rec]

FsSame == UNCHANGED <<script, project, cacheRoot, now>>
EnvSame == UNCHANGED <<runs, edits, lastEnv, call, app>>

\* or_failed_to / unwrap / process::exit: the invocation is over.
Ended(rec, how) == [rec EXCEPT !.pc = "done", !.result = how]

\* The unsuccessful runs of a tool under ExpressionExt::silent (output
\* captured) and under ExpressionExt::exec (output passed through).
ToolFailures(mode) ==
  {[status |-> s, out |-> o] :
     s \in ToolStatuses, o \in IF mode = "Silent" THEN Outputs ELSE {"inherited"}}

\* cargo's own refusal: exit code 101.
CargoError(mode) ==
  [status |-> [kind |-> "exit", code |-> 101],
   out |-> IF mode = "Silent" THEN "text" ELSE "inherited"]

\* Mutation: the message carries the output as captured, UTF-8 or not.
silent_err_raw(t) ==
  [code |-> IF t.status.kind = "exit" THEN ToString(t.status.code) ELSE "unknown",
   output |-> t.out]

\* ExpressionExt::silent: the Problem made of the status code, or "unknown",
\* and of the captured output, or a marker when it is not UTF-8.
silent_err(t) ==
  [code |-> IF t.status.kind = "exit" THEN ToString(t.status.code) ELSE "unknown",
   output |-> IF IsUtf8(t.out) THEN t.out ELSE "<non-UTF-8 output>"]

\* Mutation: a tool that failed is run again.
ToolFailed_retry(rec, mode, t) == [rec EXCEPT !.tool = t]

\* Mutation: ExpressionExt::exec returns an error as ExpressionExt::silent does.
ToolFailed_returns(rec, mode, t) ==
  [Ended(rec, "fatal") EXCEPT !.tool = t, !.err = silent_err(t)]

\* ExpressionExt::silent / ExpressionExt::exec on a tool run t that did not
\* succeed: silent returns the Problem, which main's or_failed_to ends the
\* process on; exec calls process::exit(code().unwrap()), which panics when
\* the tool was ended by a signal.
ToolFailed(rec, mode, t) ==
  IF mode = "Silent"
    THEN [Ended(rec, "fatal") EXCEPT !.tool = t, !.err = silent_err(t)]
  ELSE IF t.status.kind = "exit"
    THEN [Ended(rec, "tool_exit") EXCEPT !.tool = t, !.exit = t.status.code]
  ELSE [Ended(rec, "panic") EXCEPT !.tool = t]

\* main: the first step of each command once the Cargo value exists.
First(rec) ==
  CASE rec.cmd = "implicit" -> [rec EXCEPT !.pc = "binary_built"]
    [] rec.cmd = "clean" -> [rec EXCEPT !.pc = "clean"]
    [] OTHER -> [rec EXCEPT !.pc = "state"]

\* Mutation: exec returns to main without running the artifact.
AfterEnsureBuilt_returns(rec) == Ended(rec, "ok")

\* main: what follows a successful ensure_built.
AfterEnsureBuilt(rec) ==
  IF rec.cmd \in {"exec", "implicit"} THEN [rec EXCEPT !.pc = "execute"]
  ELSE Ended(rec, "ok")

\* The script differs from the mirror, or the staged artifact is missing or
\* older than the script (with no project there is no staged artifact).
NeedsBuildNow == ~project.exists \/ needs_build(state(script, project))

\* The program is started with one of its commands.
Start(p, cmd) ==
  /\ inv[p].pc \in {"idle", "done"}
  /\ runs < MaxRuns
  /\ runs' = runs + 1
  /\ Set(p, [IdleInv EXCEPT
               !.cmd = cmd,
               !.pc = IF cmd = "clean_all" THEN "clean_all" ELSE "new",
               !.needed0 = NeedsBuildNow])
  /\ FsSame /\ UNCHANGED <<edits, lastEnv, call, app>>

\* Mutation: a directory passes for a script.
ScriptOk_exists(scr) == scr.kind # "missing"

\* Cargo::new: script.canonicalize() succeeds and script.is_file().
ScriptOk(scr) == scr.kind = "file"

\* Mutation: the src directory is never found.
SrcExists_never(proj) == FALSE

\* Cargo::new: project.join("src").exists()
SrcExists(proj) == proj.exists

\* Cargo::new up to the test of <project>/src.
Cargo_new(p) ==
  /\ inv[p].pc = "new"
  /\ Set(p, IF ~ScriptOk(script) THEN Ended(inv[p], "fatal")
            ELSE IF ~SrcExists(project) THEN [inv[p] EXCEPT !.pc = "init"]
            ELSE First(inv[p]))
  /\ FsSame /\ EnvSame

\* Cargo::new: `cargo init`, which refuses a directory that holds a package.
cargo_init(p) ==
  /\ inv[p].pc = "init"
  /\ IF project.exists
       THEN /\ Set(p, ToolFailed(inv[p], "Silent", CargoError("Silent")))
            /\ UNCHANGED <<project, cacheRoot>>
       ELSE /\ project' = CargoInit(project)
            /\ cacheRoot' = TRUE
            /\ Set(p, First([inv[p] EXCEPT
                                !.inited = IF cacheRoot THEN "again" ELSE "first"]))
  /\ UNCHANGED <<script, now>> /\ EnvSame

\* main, implicit exec: `if !cargo.binary_built()`.
binary_built_step(p) ==
  /\ inv[p].pc = "binary_built"
  /\ Set(p, IF binary_built(project) THEN [inv[p] EXCEPT !.pc = "execute"]
            ELSE [inv[p] EXCEPT !.pc = "state"])
  /\ FsSame /\ EnvSame

\* ensure_built / ensure_updated: `let state = self.state()?` and the choice
\* of the next call.
ensure_state(p) ==
  /\ inv[p].pc = "state"
  /\ LET s == state(script, project)
         rec == [inv[p] EXCEPT !.st = s]
     IN Set(p, IF s = "Err" THEN Ended(inv[p], "fatal")
               ELSE IF needs_update(s) THEN [rec EXCEPT !.pc = "update_main"]
               ELSE IF rec.cmd \in {"check", "test"}
                 THEN [rec EXCEPT !.pc = "update_main", !.phase = "check"]
               ELSE IF needs_build(s) THEN [rec EXCEPT !.pc = "build"]
               ELSE AfterEnsureBuilt(rec))
  /\ FsSame /\ EnvSame

\* Mutation: the mirror is not written.
WriteMain_skipped(proj, text) == proj

\* Mutation: the manifest is not written.
WriteManifest_skipped(proj, text) == proj

\* fs::write on src/main.rs and on Cargo.toml.
WriteMain(proj, text) == [proj EXCEPT !.main = text]
WriteManifest(proj, text) == [proj EXCEPT !.manifest = text]

\* update: fs::write(main_path, script_content()?).
update_main(p) ==
  /\ inv[p].pc = "update_main"
  /\ IF ~script_content(script).ok \/ ~project.exists
       THEN /\ Set(p, Ended(inv[p], "fatal"))
            /\ UNCHANGED project
       ELSE /\ project' = WriteMain(project, script.content)
            /\ Set(p, [inv[p] EXCEPT !.pc = "update_manifest",
                                     !.wroteMain = (project.main # script.content)])
  /\ UNCHANGED <<script, cacheRoot, now>> /\ EnvSame

\* Mutation: after a sync ensure_built returns without building.
AfterUpdate_nobuild(rec) ==
  IF rec.phase = "check" THEN [rec EXCEPT !.pc = "cargo_check"]
  ELSE IF rec.cmd \in {"check", "test"}
    THEN [rec EXCEPT !.pc = "update_main", !.phase = "check"]
  ELSE AfterEnsureBuilt(rec)

\* What follows a successful update.
AfterUpdate(rec) ==
  IF rec.phase = "check" THEN [rec EXCEPT !.pc = "cargo_check"]
  ELSE IF rec.cmd \in {"check", "test"}
    THEN [rec EXCEPT !.pc = "update_main", !.phase = "check"]
  ELSE IF needs_build(rec.st) THEN [rec EXCEPT !.pc = "build"]
  ELSE AfterEnsureBuilt(rec)

\* update: fs::write(manifest_path, manifest_content()?).
update_manifest(p) ==
  /\ inv[p].pc = "update_manifest"
  /\ LET m == manifest_content(script.content)
     IN IF ~script_content(script).ok \/ ~m.ok \/ ~project.exists
          THEN /\ Set(p, Ended(inv[p], "fatal"))
               /\ UNCHANGED project
          ELSE /\ project' = WriteManifest(project, m.val)
               /\ Set(p, AfterUpdate([inv[p] EXCEPT !.synced = TRUE]))
  /\ UNCHANGED <<script, cacheRoot, now>> /\ EnvSame

\* The build tool finds its last output still current.
Fresh(proj) ==
  /\ is_file(proj.target) /\ proj.target.complete
  /\ proj.target.src = proj.main /\ proj.target.man = proj.manifest

\* The build tool holds the lock of the build directory while it writes.
CargoLocked == \E q \in Procs : inv[q].pc = "build_link"

\* Mutation: the build tool writes straight to the staged path.
Linking_staged(proj, p, t) == [proj EXCEPT !.binary = Partial(p, t)]

\* The build tool starts to write its output, target/release/<name>.
Linking(proj, p, t) == [proj EXCEPT !.target = Partial(p, t)]

\* Mutation: a build tool that fails takes the staged artifact with it.
build_start_unstages(p) ==
  /\ inv[p].pc = "build"
  /\ IF ~project.exists
       THEN /\ Set(p, Ended(inv[p], "fatal"))
            /\ UNCHANGED <<project, now>>
       ELSE /\ ~CargoLocked
            /\ \/ \E t \in ToolFailures(CargoMode(inv[p].cmd)) :
                    /\ Set(p, ToolFailed(inv[p], CargoMode(inv[p].cmd), t))
                    /\ project' = [project EXCEPT !.binary = NoFile]
                    /\ UNCHANGED now
               \/ /\ Fresh(project)
                  /\ Set(p, [inv[p] EXCEPT !.pc = "rename"])
                  /\ UNCHANGED <<project, now>>
               \/ /\ project' = Linking(project, p, now)
                  /\ Set(p, [inv[p] EXCEPT !.pc = "build_link"])
                  /\ UNCHANGED now
  /\ UNCHANGED <<script, cacheRoot>> /\ EnvSame

\* build: `cargo build --release` is run in the project directory; it fails,
\* finds nothing to do, or starts writing target/release/<name>.
build_start(p) ==
  /\ inv[p].pc = "build"
  /\ IF ~project.exists
       THEN /\ Set(p, Ended(inv[p], "fatal"))
            /\ UNCHANGED <<project, now>>
       ELSE /\ ~CargoLocked
            /\ \/ \E t \in ToolFailures(CargoMode(inv[p].cmd)) :
                    /\ Set(p, ToolFailed(inv[p], CargoMode(inv[p].cmd), t))
                    /\ UNCHANGED <<project, now>>
               \/ /\ Fresh(project)
                  /\ Set(p, [inv[p] EXCEPT !.pc = "rename"])
                  /\ UNCHANGED <<project, now>>
               \/ /\ project' = Linking(project, p, now)
                  /\ Set(p, [inv[p] EXCEPT !.pc = "build_link"])
                  /\ UNCHANGED now
  /\ UNCHANGED <<script, cacheRoot>> /\ EnvSame

\* The file the tool of p is writing is complete, wherever it is by now.
Finished(f, p, proj, t) ==
  IF is_file(f) /\ ~f.complete /\ f.by = p THEN Complete(proj.main, proj.manifest, t)
  ELSE f

\* build: the build tool ends with success.
build_finish(p) ==
  /\ inv[p].pc = "build_link"
  /\ IF ~project.exists
       THEN /\ Set(p, ToolFailed(inv[p], CargoMode(inv[p].cmd),
                                 CargoError(CargoMode(inv[p].cmd))))
            /\ UNCHANGED project
       ELSE /\ project' = [project EXCEPT
                             !.target = Finished(project.target, p, project, now),
                             !.binary = Finished(project.binary, p, project, now)]
            /\ Set(p, [inv[p] EXCEPT !.pc = "rename"])
  /\ UNCHANGED <<script, cacheRoot, now>> /\ EnvSame

\* Mutation: the output is removed, not moved.
Renamed_removed(proj) == [proj EXCEPT !.target = NoFile]

\* Mutation: the output is copied to the staged path.
Renamed_copied(proj) == [proj EXCEPT !.binary = proj.target]

\* The staged path and the tool's output path after fs::rename(from, to).
Renamed(proj) == [proj EXCEPT !.binary = proj.target, !.target = NoFile]

\* build: fs::rename(release_target_path, binary_path).
build_rename(p) ==
  /\ inv[p].pc = "rename"
  /\ IF project.exists /\ is_file(project.target)
       THEN /\ project' = Renamed(project)
            /\ Set(p, AfterEnsureBuilt([inv[p] EXCEPT !.built = TRUE]))
       ELSE /\ Set(p, Ended(inv[p], "fatal"))
            /\ UNCHANGED project
  /\ UNCHANGED <<script, cacheRoot, now>> /\ EnvSame

\* execute: the process image is replaced by the staged artifact.
execute(p) ==
  /\ inv[p].pc = "execute"
  /\ Set(p, IF binary_built(project)
              THEN [Ended(inv[p], "execd") EXCEPT !.ran = project.binary]
            ELSE Ended(inv[p], "exec_failed"))
  /\ FsSame /\ EnvSame

\* check / test: `cargo check` or `cargo test` through ExpressionExt::exec.
cargo_check(p) ==
  /\ inv[p].pc = "cargo_check"
  /\ IF ~project.exists THEN Set(p, Ended(inv[p], "fatal"))
     ELSE \/ Set(p, Ended(inv[p], "ok"))
          \/ \E t \in ToolFailures("Verbose") : Set(p, ToolFailed(inv[p], "Verbose", t))
  /\ FsSame /\ EnvSame

\* Mutation: only the src directory is removed.
Removed_src_only(proj) == [proj EXCEPT !.exists = FALSE]

\* fs::remove_dir_all on the project directory.
Removed(proj) == NoProject

\* clean: fs::remove_dir_all(project).
clean(p) ==
  /\ inv[p].pc = "clean"
  /\ IF project.exists
       THEN /\ project' = Removed(project)
            /\ Set(p, Ended(inv[p], "ok"))
       ELSE /\ Set(p, Ended(inv[p], "fatal"))
            /\ UNCHANGED project
  /\ UNCHANGED <<script, cacheRoot, now>> /\ EnvSame

\* clean_all: fs::remove_dir_all(app_cache(None)).
clean_all(p) ==
  /\ inv[p].pc = "clean_all"
  /\ IF cacheRoot
       THEN /\ project' = NoProject
            /\ cacheRoot' = FALSE
            /\ Set(p, Ended(inv[p], "ok"))
       ELSE /\ Set(p, Ended(inv[p], "fatal"))
            /\ UNCHANGED <<project, cacheRoot>>
  /\ UNCHANGED <<script, now>> /\ EnvSame

\* ---------------------------------------------------------- the environment
Outside(what) ==
  /\ edits < MaxEdits
  /\ edits' = edits + 1
  /\ lastEnv' = [what |-> what, fromUpToDate |-> state(script, project) = "UpToDate"]
  /\ inv' = [p \in Procs |-> [inv[p] EXCEPT !.quiet = FALSE]]
  /\ UNCHANGED <<cacheRoot, now, runs, call, app>>

\* The user saves the script with another content, or creates it.
EditScript(c) ==
  /\ script.kind # "dir"
  /\ script.kind = "missing" \/ c # script.content
  /\ script' = [kind |-> "file", content |-> c, mtime |-> now]
  /\ UNCHANGED project
  /\ Outside("edit")

\* The user touches the script.
TouchScript ==
  /\ script.kind = "file"
  /\ script.mtime < now
  /\ script' = [script EXCEPT !.mtime = now]
  /\ UNCHANGED project
  /\ Outside("touch")

\* The user deletes the staged artifact.
DeleteArtifact ==
  /\ binary_built(project)
  /\ project' = [project EXCEPT !.binary = NoFile]
  /\ UNCHANGED script
  /\ Outside("rm_artifact")

\* Time passes.
Tick ==
  /\ now < MaxTime
  /\ now' = now + 1
  /\ UNCHANGED <<script, project, cacheRoot, inv, runs, edits, lastEnv, call, app>>

Env ==
  \/ \E c \in ScriptTexts : EditScript(c)
  \/ TouchScript
  \/ DeleteArtifact
  \/ Tick

\* ------------------------------------------------------------ specification
Init ==
  /\ script \in [kind : {"file"}, content : ScriptTexts, mtime : {0}]
                \cup [kind : {"dir", "missing"}, content : {<<>>}, mtime : {0}]
  /\ project = NoProject
  /\ cacheRoot = FALSE
  /\ now = 0
  /\ inv = [p \in Procs |-> IdleInv]
  /\ runs = 0
  /\ edits = 0
  /\ lastEnv = [what |-> "none", fromUpToDate |-> FALSE]
  /\ call = NoCall
  /\ app = NoApp

Run(p) ==
  \/ Cargo_new(p)
  \/ cargo_init(p)
  \/ binary_built_step(p)
  \/ ensure_state(p)
  \/ update_main(p)
  \/ update_manifest(p)
  \/ build_start(p)
  \/ build_finish(p)
  \/ build_rename(p)
  \/ execute(p)
  \/ cargo_check(p)
  \/ clean(p)
  \/ clean_all(p)

\* One invocation at a time, with the environment acting between its steps.
Next ==
  \/ \E cmd \in Commands : Start("p1", cmd)
  \/ Run("p1")
  \/ Env

Spec == Init /\ [][Next]_vars

\* One invocation at a time, with the environment acting only between two
\* invocations.
AtRest == \A p \in Procs : inv[p].pc \in {"idle", "done"}

NextSeq ==
  \/ \E cmd \in Commands : Start("p1", cmd)
  \/ Run("p1")
  \/ AtRest /\ Env

SpecSeq == Init /\ [][NextSeq]_vars

\* One invocation at a time on a script whose modification time may lie ahead
\* of the clock (a file dated by another machine, or by touch -d).
InitSkew ==
  /\ script \in [kind : {"file"}, content : ScriptTexts, mtime : 0..MaxTime]
  /\ project = NoProject
  /\ cacheRoot = FALSE
  /\ now = 0
  /\ inv = [p \in Procs |-> IdleInv]
  /\ runs = 0
  /\ edits = 0
  /\ lastEnv = [what |-> "none", fromUpToDate |-> FALSE]
  /\ call = NoCall
  /\ app = NoApp

SpecSkew == InitSkew /\ [][NextSeq]_vars

\* Two invocations at a time, one per process, on a cache that is empty, or
\* holds the project built from ScriptA with the script as built or edited since.
BuiltA ==
  [exists |-> TRUE, main |-> ScriptA, manifest |-> manifest_content(ScriptA).val,
   orig |-> FALSE, target |-> NoFile,
   binary |-> Complete(ScriptA, manifest_content(ScriptA).val, 0)]

\* The project built from ScriptB.
BuiltB ==
  [exists |-> TRUE, main |-> ScriptB, manifest |-> manifest_content(ScriptB).val,
   orig |-> FALSE, target |-> NoFile,
   binary |-> Complete(ScriptB, manifest_content(ScriptB).val, 0)]

InitConc ==
  /\ \/ /\ project = NoProject /\ cacheRoot = FALSE
        /\ script = [kind |-> "file", content |-> ScriptA, mtime |-> 0] /\ now = 0
     \/ /\ project = BuiltA /\ cacheRoot = TRUE
        /\ \/ script = [kind |-> "file", content |-> ScriptA, mtime |-> 0] /\ now = 0
           \/ script = [kind |-> "file", content |-> ScriptB, mtime |-> 1] /\ now = 1
  /\ inv = [p \in Procs |-> IdleInv]
  /\ runs = 0
  /\ edits = 0
  /\ lastEnv = [what |-> "none", fromUpToDate |-> FALSE]
  /\ call = NoCall
  /\ app = NoApp

StartOnce(p, cmd) == inv[p].pc = "idle" /\ Start(p, cmd)

NextConc ==
  \/ \E p \in Procs, cmd \in Commands : StartOnce(p, cmd)
  \/ \E p \in Procs : Run(p)
  \/ Tick

SpecConc == InitConc /\ [][NextConc]_vars

\* ------------------------------------------- the functions on their own
\* Lines a script is made of: marker lines, exact and padded, lines that only
\* look like markers, content, and empty and blank lines.
ManifestLines ==
  {MarkerOpen, <<" ">> \o MarkerOpen \o <<"\t">>, MarkerOpen \o <<"x">>,
   MarkerClose, <<"\t">> \o MarkerClose, <<"a">>, <<" ", "b", " ">>, <<>>, <<" ">>}

RECURSIVE SeqsUpTo(_, _)
SeqsUpTo(S, n) ==
  IF n = 0 THEN {<<>>}
  ELSE LET shorter == SeqsUpTo(S, n - 1)
       IN shorter \cup {Append(q, x) : q \in shorter, x \in S}

\* The text of the lines ls with the line terminator eol, the last line
\* terminated or not.
TextOf(ls, eol, closed) == Join(ls, eol) \o (IF closed /\ ls # <<>> THEN eol ELSE <<>>)

ManifestInputs ==
  {TextOf(ls, eol, closed) :
     ls \in SeqsUpTo(ManifestLines, MaxLines),
     eol \in {<<"\n">>, <<"\r", "\n">>}, closed \in BOOLEAN}
  \cup ScriptTexts

\* Canonical script paths: directories up to MaxDepth deep, and file names
\* with one dot, two dots, a leading dot and none.
FileNames ==
  {<<"s", ".", "r", "s">>, <<"s", ".", "x", ".", "r", "s">>, <<".", "r", "s">>,
   <<"t", ".", "r", "s">>, <<"s">>}

ScriptPaths ==
  {[dir |-> d, file |-> f] : d \in SeqsUpTo({"a", "b"}, MaxDepth), f \in FileNames}

Calls ==
  {[fn |-> "manifest_content", arg |-> text, done |-> FALSE, ret |-> <<>>] :
     text \in ManifestInputs}
  \cup
  {[fn |-> "project_path", arg |-> <<a, b>>, done |-> FALSE, ret |-> <<>>] :
     a \in ScriptPaths, b \in ScriptPaths}
  \cup
  {[fn |-> "hex_digest", arg |-> <<a, b>>, done |-> FALSE, ret |-> <<>>] :
     a \in SeqsUpTo({"x", "y"}, MaxBytes), b \in SeqsUpTo({"x", "y"}, MaxBytes)}
  \cup
  {[fn |-> "exec", arg |-> [file |-> f, args |-> as], done |-> FALSE, ret |-> <<>>] :
     f \in FileNames, as \in SeqsUpTo({"-v", "w"}, MaxBytes)}
  \cup
  {[fn |-> "is_tty", arg |-> [Stdout |-> o, Stderr |-> r], done |-> FALSE, ret |-> <<>>] :
     o \in BOOLEAN, r \in BOOLEAN}
  \cup
  {[fn |-> "digest_split", arg |-> [bytes |-> w, cut1 |-> c1, cut2 |-> c2, chunk |-> k],
    done |-> FALSE, ret |-> <<>>] :
     w \in SeqsUpTo({"x", "y"}, MaxBytes), c1 \in 0..MaxBytes, c2 \in 0..MaxBytes,
     k \in 1..MaxBytes}
  \cup
  {[fn |-> "clean", arg |-> [a |-> a, b |-> b, pa |-> pa, pb |-> pb],
    done |-> FALSE, ret |-> <<>>] :
     a \in ScriptPaths, b \in ScriptPaths,
     pa \in {NoProject, BuiltA}, pb \in {NoProject, BuiltB}}

\* Scripts and initialized projects state() is evaluated on: any script bytes,
\* any mirror, the staged artifact absent or present, any modification times.
StateScripts ==
  [kind : {"file"}, content : {ScriptA, ScriptB, NonUtf8Script}, mtime : 0..MaxTime]

StateProjects ==
  {[exists |-> TRUE, main |-> m, manifest |-> InitManifest, orig |-> FALSE,
    target |-> NoFile, binary |-> b] :
     m \in {ScriptA, ScriptB, Placeholder, NonUtf8Script},
     b \in {NoFile} \cup {Complete(ScriptA, InitManifest, t) : t \in 0..MaxTime}}

InitFn ==
  /\ \/ /\ call \in Calls
        /\ script = [kind |-> "file", content |-> ScriptA, mtime |-> 0]
        /\ project = NoProject
     \/ /\ call = [fn |-> "state", arg |-> <<>>, done |-> FALSE, ret |-> <<>>]
        /\ script \in StateScripts
        /\ project \in StateProjects
  /\ cacheRoot = FALSE
  /\ now = 0
  /\ inv = [p \in Procs |-> IdleInv]
  /\ runs = 0
  /\ edits = 0
  /\ lastEnv = [what |-> "none", fromUpToDate |-> FALSE]
  /\ app = NoApp

Returns(v) ==
  /\ ~call.done
  /\ call' = [call EXCEPT !.done = TRUE, !.ret = v]
  /\ UNCHANGED <<script, project, cacheRoot, now, inv, runs, edits, lastEnv, app>>

call_manifest_content ==
  /\ call.fn = "manifest_content"
  /\ Returns(manifest_content(call.arg))

\* Cargo::new on two script paths, up to the project path of each.
call_project_path ==
  /\ call.fn = "project_path"
  /\ Returns(<<project_path(call.arg[1]), project_path(call.arg[2])>>)

\* hex_digest on two buffers in one order, in the other, and in the first again.
call_hex_digest ==
  /\ call.fn = "hex_digest"
  /\ Returns(<<hex_digest(<<call.arg[1], call.arg[2]>>),
               hex_digest(<<call.arg[2], call.arg[1]>>),
               hex_digest(<<call.arg[1], call.arg[2]>>)>>)

\* The bytes of a file given to hex_digest whole, given to it as three parts
\* cut at cut1 and cut2, and read from the file through a buffer of chunk bytes.
SplitAt(w, c1, c2) ==
  LET a == IF c1 < Len(w) THEN c1 ELSE Len(w)
      b == IF c2 < a THEN a ELSE IF c2 < Len(w) THEN c2 ELSE Len(w)
  IN <<SubSeq(w, 1, a), SubSeq(w, a + 1, b), SubSeq(w, b + 1, Len(w))>>

call_digest_split ==
  /\ call.fn = "digest_split"
  /\ LET a == call.arg
     IN Returns([whole |-> hex_digest(<<a.bytes>>),
                 parts |-> hex_digest(SplitAt(a.bytes, a.cut1, a.cut2)),
                 file |-> hex_digest_file(a.bytes),
                 chunked |-> read_chunks(Sha256New, a.bytes, a.chunk)])

\* Cargo::execute: exec(binary_path, args) for the script file call.arg.file.
call_exec ==
  /\ call.fn = "exec"
  /\ Returns(exec_argv(binary_name(call.arg.file), call.arg.args))

\* Cargo::state evaluated twice on the script and the project as they are.
call_state ==
  /\ call.fn = "state"
  /\ Returns(<<state(script, project), state(script, project)>>)

\* atty::is(stream) with the standard streams as fds says they are.
atty_is(stream, fds) == fds[stream]

\* prelude::stdout_is_tty and prelude::stderr_is_tty
stdout_is_tty(fds) == atty_is("Stdout", fds)
stderr_is_tty(fds) == atty_is("Stdout", fds)

call_is_tty ==
  /\ call.fn = "is_tty"
  /\ Returns([stdout |-> stdout_is_tty(call.arg), stderr |-> stderr_is_tty(call.arg)])

\* The cache directory with the projects of two scripts a and b in it: what is
\* found at the project path of each, the project of a as pa and the project
\* of b, used last, as pb.
CacheWith(a, pa, b, pb) ==
  [d \in {project_path(a), project_path(b)} |->
     IF d = project_path(b) THEN pb ELSE pa]

\* Mutation: clean removes every project of the cache.
clean_cache_all(cache, path) == [d \in DOMAIN cache |-> NoProject]

\* main, Clean: Cargo::new(script), which runs cargo init when the project has
\* no src directory, and Cargo::clean, fs::remove_dir_all(project).
clean_cache(cache, path) ==
  LET d == project_path(path)
      found == IF SrcExists(cache[d]) THEN cache[d] ELSE CargoInit(cache[d])
  IN [cache EXCEPT ![d] = Removed(found)]

\* Cargo::clean_all: fs::remove_dir_all(app_cache(None)).
clean_all_cache(cache) == [d \in DOMAIN cache |-> NoProject]

\* `clean` of script a, and `clean-all`, on a cache that holds the projects of
\* a and b.
call_clean ==
  /\ call.fn = "clean"
  /\ LET cache == CacheWith(call.arg.a, call.arg.pa, call.arg.b, call.arg.pb)
     IN Returns([before |-> cache,
                 clean |-> clean_cache(cache, call.arg.a),
                 clean_all |-> clean_all_cache(cache)])

NextFn ==
  \/ call_manifest_content
  \/ call_project_path
  \/ call_hex_digest
  \/ call_digest_split
  \/ call_exec
  \/ call_state
  \/ call_is_tty
  \/ call_clean

SpecFn == InitFn /\ [][NextFn]_vars

\* ------------------------------------------------- the application identity
\* The identities init_app_info_with is called with, and the one that
\* init_app_info_guess makes of the program's argument zero.
GivenInfos == {[name |-> "n1", author |-> "a1"], [name |-> "n2", author |-> "a2"]}
GuessedInfo == [name |-> "argv0", author |-> "Anonymous"]

AppCalls ==
  {[op |-> "init_app_info_with", val |-> v] : v \in GivenInfos}
  \cup {[op |-> "init_app_info_guess", val |-> GuessedInfo],
        [op |-> "project_dirs", val |-> GuessedInfo]}

AppSame == UNCHANGED <<script, project, cacheRoot, now, inv, runs, edits, lastEnv, call>>

SetThread(t, rec) == app' = [app EXCEPT !.th[t] = rec]

\* Mutation: the mutex excludes nobody.
CanLock_always(t) == TRUE

\* Mutex::lock returns when no thread holds the mutex.
CanLock(t) == app.lock = "free"

\* A thread calls init_app_info_with, init_app_info_guess or project_dirs.
app_call(t) ==
  /\ app.th[t].pc = "idle"
  /\ \E c \in AppCalls :
       SetThread(t, [app.th[t] EXCEPT !.op = c.op, !.val = c.val, !.pc = "lock"])
  /\ AppSame

\* APP_INFO.lock() in an initializer.
app_lock(t) ==
  /\ app.th[t].pc = "lock"
  /\ CanLock(t)
  /\ app' = [app EXCEPT !.lock = t, !.th[t].pc = "check",
                        !.first = IF app.info = NoInfo /\ app.first = NoInfo
                                    THEN app.th[t].val ELSE app.first]
  /\ AppSame

\* `if app_info.is_none()`
app_check(t) ==
  /\ app.th[t].pc = "check"
  /\ SetThread(t, [app.th[t] EXCEPT
                     !.pc = IF app.info = NoInfo THEN "replace" ELSE "unlock"])
  /\ AppSame

\* app_info.replace(AppInfo {..})
app_replace(t) ==
  /\ app.th[t].pc = "replace"
  /\ app' = [app EXCEPT !.info = app.th[t].val, !.th[t].pc = "unlock"]
  /\ AppSame

\* The guard of an initializer is dropped; project_dirs goes on to its lookup.
app_unlock(t) ==
  /\ app.th[t].pc = "unlock"
  /\ app' = [app EXCEPT
               !.lock = IF app.lock = t THEN "free" ELSE app.lock,
               !.th[t].pc = IF app.th[t].op = "project_dirs" THEN "lock_read" ELSE "idle"]
  /\ AppSame

\* project_dirs: APP_INFO.lock(), app_info.as_ref().unwrap() and
\* ProjectDirs::from on what it holds; the guard is dropped on return.
app_read(t) ==
  /\ app.th[t].pc = "lock_read"
  /\ CanLock(t)
  /\ SetThread(t, [app.th[t] EXCEPT !.seen = app.info, !.pc = "idle"])
  /\ AppSame

InitApp ==
  /\ script = [kind |-> "file", content |-> ScriptA, mtime |-> 0]
  /\ project = NoProject
  /\ cacheRoot = FALSE
  /\ now = 0
  /\ inv = [p \in Procs |-> IdleInv]
  /\ runs = 0
  /\ edits = 0
  /\ lastEnv = [what |-> "none", fromUpToDate |-> FALSE]
  /\ call = NoCall
  /\ app = NoApp

NextApp ==
  \E t \in Threads :
    \/ app_call(t)
    \/ app_lock(t)
    \/ app_check(t)
    \/ app_replace(t)
    \/ app_unlock(t)
    \/ app_read(t)

SpecApp == InitApp /\ [][NextApp]_vars

\* ------------------------------------------------------------------ claims
\* ensure_built has returned Ok in the invocation recorded in r.
EnsureBuiltOk(r) ==
  /\ r.st \in CargoStates
  /\ \/ r.cmd = "build" /\ r.result = "ok"
     \/ r.cmd \in {"exec", "implicit"} /\ (r.pc = "execute" \/ r.result \in {"execd", "exec_failed"})

\* C1: on `exec` and on the implicit-exec path, whenever at invocation time the
\* script differs from the mirror or the staged artifact is missing or older
\* than the script, sync and/or build have run before the artifact is executed
\* (nothing being changed from outside during the invocation).
C1_BuiltBeforeHandOff ==
  \A p \in Procs :
    (inv[p].cmd \in {"exec", "implicit"} /\ inv[p].result = "execd"
       /\ inv[p].needed0 /\ inv[p].quiet)
      => (inv[p].synced \/ inv[p].built)

\* The same on the `exec` subcommand alone.
C1_ExecPathOnly ==
  \A p \in Procs :
    (inv[p].cmd = "exec" /\ inv[p].result = "execd" /\ inv[p].needed0 /\ inv[p].quiet)
      => (inv[p].synced \/ inv[p].built)

\* C2: state() returns the first match of: ScriptDiffers if the digests (the
\* contents) differ, else NoBinary if the staged artifact is no file, else
\* BinaryOutdated if its mtime is strictly less than the script's, else UpToDate.
FirstMatch(differs, isFile, older) ==
  IF differs THEN "ScriptDiffers"
  ELSE IF ~isFile THEN "NoBinary"
  ELSE IF older THEN "BinaryOutdated"
  ELSE "UpToDate"

C3_Predicates ==
  \A p \in Procs :
    LET r == inv[p] IN
    r.st \in CargoStates =>
      /\ needs_update(r.st) <=> r.st = "ScriptDiffers"
      /\ needs_build(r.st) <=> r.st \in {"ScriptDiffers", "NoBinary", "BinaryOutdated"}
      /\ needs_update(r.st) => needs_build(r.st)
      /\ EnsureBuiltOk(r) =>
           /\ r.synced <=> r.st = "ScriptDiffers"
           /\ r.built <=> r.st \in {"ScriptDiffers", "NoBinary", "BinaryOutdated"}

\* ensure_built on BinaryOutdated has built and not synced.
C3_Witness ==
  \E p \in Procs :
    EnsureBuiltOk(inv[p]) /\ inv[p].st = "BinaryOutdated" /\ inv[p].built /\ ~inv[p].synced

C6_DeletedArtifact ==
  /\ [][(project.exists /\ state(script, project) = "UpToDate" /\ script' = script
           /\ project' = [project EXCEPT !.binary = NoFile])
          => state(script', project') = "NoBinary"]_vars
  /\ [](\A p \in Procs :
          (EnsureBuiltOk(inv[p]) /\ inv[p].st = "NoBinary")
            => (inv[p].built /\ ~inv[p].synced))

C6_Witness ==
  \E p \in Procs :
    /\ lastEnv = [what |-> "rm_artifact", fromUpToDate |-> TRUE]
    /\ EnsureBuiltOk(inv[p]) /\ inv[p].st = "NoBinary" /\ inv[p].quiet
    /\ inv[p].built /\ ~inv[p].synced

\* The project as a first-time creation leaves it.
FreshProject ==
  [exists |-> TRUE, main |-> Placeholder, manifest |-> InitManifest,
   orig |-> FALSE, target |-> NoFile, binary |-> NoFile]

\* C7: after a successful `clean` the project directory does not exist, and the
\* next operation on the script runs `cargo init` again and gets the project
\* content of a first-time creation.
C7_CleanThenFreshInit ==
  /\ [](\A p \in Procs :
          LET r == inv[p] IN
          /\ (r.cmd = "clean" /\ r.result = "ok" /\ r.quiet) => project = NoProject
          /\ (r.inited # "no" /\ r.quiet /\ r.pc \in {"binary_built", "state", "clean"})
               => project = FreshProject)
  /\ [][\A p \in Procs :
          (inv[p].pc = "new" /\ ScriptOk(script) /\ ~project.exists
             /\ inv'[p].pc # "new")
            => inv'[p].pc = "init"]_vars

\* An invocation that initialized again a project that was there before.
C7_Witness ==
  \E p \in Procs :
    /\ inv[p].inited = "again" /\ inv[p].quiet
    /\ inv[p].pc \in {"binary_built", "state"}
    /\ project = FreshProject

\* C8: when update() returns, with Ok or with an error, either both the mirror
\* and the manifest reflect the current script or neither file was modified.
C8_UpdateAllOrNothing ==
  [][\A p \in Procs :
       (inv[p].pc = "update_manifest" /\ inv'[p].pc # "update_manifest" /\ inv[p].quiet)
         => \/ /\ project'.main = script'.content
               /\ manifest_content(script'.content).ok
               /\ project'.manifest = manifest_content(script'.content).val
            \/ ~inv[p].wroteMain]_vars

\* C9: when build() returns Ok the build output has been moved to the staged
\* path: the staged artifact is the file that was the raw output, and the raw
\* output path holds no file.
C9_BuildMoves ==
  [][\A p \in Procs :
       (inv[p].pc = "rename" /\ inv'[p].built)
         => /\ is_file(project'.binary)
            /\ project'.binary = project.target
            /\ ~is_file(project'.target)]_vars

C9_Witness ==
  \E p \in Procs :
    /\ inv[p].cmd = "build" /\ inv[p].result = "ok" /\ inv[p].built /\ inv[p].quiet
    /\ is_file(project.binary) /\ ~is_file(project.target)

\* C10: with one invocation building and another checking for and executing
\* the staged artifact, what is executed is a complete artifact, the old one
\* or the new one, never a file still being written.
C10_ExecSeesComplete ==
  \A p \in Procs :
    (inv[p].result = "execd" /\ ~inv[p].built)
      => (is_file(inv[p].ran) /\ inv[p].ran.complete)

\* An invocation has executed the staged artifact while the build tool of the
\* other one is writing its output.
C10_Witness ==
  \E p, q \in Procs :
    /\ p # q
    /\ inv[p].result = "execd" /\ ~inv[p].built /\ inv[p].ran.complete
    /\ inv[q].pc = "build_link"
    /\ is_file(project.target) /\ ~project.target.complete


\* A build in Verbose (exec, build) or in Silent (implicit exec) mode whose tool
\* did not end with success.
VerboseBuildFailed(r) ==
  r.cmd \in {"exec", "build"} /\ r.st # "none" /\ r.tool # NoTool
SilentBuildFailed(r) ==
  r.cmd = "implicit" /\ r.st # "none" /\ r.tool # NoTool

\* C11 as stated: whenever the build tool of a Verbose build does not end with
\* success, the process exits with the tool's own exit code and nothing is
\* renamed into the staged path.
C11_VerboseExitsWithToolCode ==
  \A p \in Procs :
    VerboseBuildFailed(inv[p]) =>
      /\ inv[p].result = "tool_exit"
      /\ inv[p].exit = inv[p].tool.status.code
      /\ ~inv[p].built

\* C11, amended: a Verbose build whose tool ends with an exit code other than 0
\* exits with that code; one whose tool is ended by a signal panics without
\* calling process::exit; in both cases nothing is renamed into the staged path.
C11_VerboseExitCodeOrPanic ==
  \A p \in Procs :
    VerboseBuildFailed(inv[p]) =>
      /\ ~inv[p].built
      /\ inv[p].tool.status.kind = "exit" =>
            inv[p].result = "tool_exit" /\ inv[p].exit = inv[p].tool.status.code
      /\ inv[p].tool.status.kind = "signal" =>
            inv[p].result = "panic" /\ inv[p].exit = NoExit

C11_Witness ==
  /\ VerboseBuildFailed(inv["p1"]) /\ inv["p1"].cmd = "build"
  /\ inv["p1"].tool.status = [kind |-> "exit", code |-> 2]
  /\ inv["p1"].exit = 2 /\ ~binary_built(project)

\* C12 as stated: a Silent build returns Ok with nothing reported when the tool
\* succeeds, and when it fails one error that carries the status code and the
\* captured output; the process is not ended by build itself.
C12_SilentErrorCarriesOutput ==
  \A p \in Procs :
    (inv[p].cmd = "implicit" /\ inv[p].st # "none") =>
      /\ inv[p].exit = NoExit /\ inv[p].result \notin {"tool_exit", "panic"}
      /\ inv[p].built => inv[p].tool = NoTool /\ inv[p].err = NoErr
      /\ inv[p].tool # NoTool =>
            /\ inv[p].tool.status.kind = "exit" =>
                  inv[p].err.code = ToString(inv[p].tool.status.code)
            /\ inv[p].err.output = inv[p].tool.out

\* C12, amended: the error of a failed Silent build carries the tool's exit
\* code, or "unknown" when a signal ended the tool, and the captured output,
\* or the marker <non-UTF-8 output> when the output is not UTF-8; a Silent
\* build that succeeds reports nothing, and build never ends the process.
C12_SilentErrorOrMarker ==
  \A p \in Procs :
    (inv[p].cmd = "implicit" /\ inv[p].st # "none") =>
      /\ inv[p].exit = NoExit /\ inv[p].result \notin {"tool_exit", "panic"}
      /\ inv[p].built => inv[p].tool = NoTool /\ inv[p].err = NoErr
      /\ inv[p].tool # NoTool =>
            /\ ~inv[p].built
            /\ inv[p].tool.status.kind = "exit" =>
                  inv[p].err.code = ToString(inv[p].tool.status.code)
            /\ inv[p].tool.status.kind = "signal" => inv[p].err.code = "unknown"
            /\ IsUtf8(inv[p].tool.out) => inv[p].err.output = inv[p].tool.out
            /\ ~IsUtf8(inv[p].tool.out) => inv[p].err.output = "<non-UTF-8 output>"

C12_Witness ==
  /\ SilentBuildFailed(inv["p1"])
  /\ inv["p1"].tool = [status |-> [kind |-> "exit", code |-> 2], out |-> "text"]
  /\ inv["p1"].err = [code |-> "2", output |-> "text"]
  /\ inv["p1"].result = "fatal"

\* C13 as stated: check and test sync first and then run the tool, and a tool
\* that fails makes them return an error to main; the process is not ended
\* inside them.
C13_CheckFailureReturned ==
  \A p \in Procs :
    inv[p].cmd \in {"check", "test"} =>
      /\ inv[p].pc = "cargo_check" => inv[p].synced
      /\ (inv[p].phase = "check" /\ inv[p].tool # NoTool) =>
            inv[p].result = "fatal" /\ inv[p].exit = NoExit

\* The part of C13 that holds: the tool of check and test runs after a sync
\* made by the same call.
C13_SyncBeforeTool ==
  \A p \in Procs :
    (inv[p].cmd \in {"check", "test"} /\ inv[p].pc = "cargo_check") =>
      inv[p].synced /\ inv[p].phase = "check"

\* The least element of a set of numbers that is not empty.
Least(S) == CHOOSE i \in S : \A j \in S : i <= j

\* The trimmed lines of a text strictly after the first one that is the opening
\* marker and strictly before the next one that is the closing marker, or up
\* to the end of the text when there is none.
BlockOf(text) ==
  LET tl == TrimAll(Lines(text))
      opens == {i \in 1..Len(tl) : tl[i] = MarkerOpen}
  IN IF opens = {} THEN <<>>
     ELSE LET open == Least(opens)
              closes == {j \in (open + 1)..Len(tl) : tl[j] = MarkerClose}
              close == IF closes = {} THEN Len(tl) + 1 ELSE Least(closes)
          IN SubSeq(tl, open + 1, close - 1)

\* C14: manifest_content returns the trimmed lines between the first opening
\* marker line and the next closing marker line (or the end of the script),
\* joined with newlines, and fails exactly when that text is empty.
C14_ManifestBlock ==
  (call.fn = "manifest_content" /\ call.done) =>
    LET joined == Join(BlockOf(call.arg), <<"\n">>)
    IN /\ call.ret.ok <=> joined # <<>>
       /\ call.ret.ok => call.ret.val = joined
       /\ (\A i \in 1..Len(TrimAll(Lines(call.arg))) :
             TrimAll(Lines(call.arg))[i] # MarkerOpen) => ~call.ret.ok

C14_Witness ==
  /\ call.fn = "manifest_content" /\ call.done
  /\ Len(Lines(call.arg)) = 3 /\ Trim(Lines(call.arg)[1]) = MarkerOpen
  /\ call.ret = [ok |-> TRUE, val |-> <<"a", "\n", "b">>]

\* C15: the project path is <cache>/project-<first 16 hex characters of the
\* digest of the canonical parent directory>-<file stem>: scripts with the same
\* parent and stem get the same path, and scripts with the same stem in
\* different parent directories get different paths.
C15_ProjectPath ==
  (call.fn = "project_path" /\ call.done) =>
    LET a == call.arg[1]
        b == call.arg[2]
        leaf == call.ret[1][2]
    IN /\ call.ret[1][1] = "<cache>"
       /\ leaf[1] = "project-" /\ leaf[3] = "-"
       /\ leaf[2] = HexPrefix(hex_digest(<<ParentStr(a.dir)>>), 16)
       /\ leaf[4] = file_stem(a.file)
       /\ (a.dir = b.dir /\ file_stem(a.file) = file_stem(b.file)) =>
             call.ret[1] = call.ret[2]
       /\ (a.dir # b.dir /\ file_stem(a.file) = file_stem(b.file)) =>
             call.ret[1] # call.ret[2]

C15_Witness ==
  /\ call.fn = "project_path" /\ call.done
  /\ call.arg[1] = [dir |-> <<"a">>, file |-> <<"s", ".", "r", "s">>]
  /\ call.arg[2] = [dir |-> <<"a", "b">>, file |-> <<"s", ".", "r", "s">>]
  /\ call.ret[1] # call.ret[2]
  /\ call.ret[1][2][4] = <<"s">>

\* C16: when the script path cannot be canonicalized or is not a regular file,
\* Cargo::new returns an error: cargo init is not invoked and nothing in the
\* cache is created or changed.
C16_BadScriptNoProject ==
  [][\A p \in Procs :
       (inv[p].pc = "new" /\ inv'[p].pc # "new" /\ script.kind # "file") =>
         /\ inv'[p].pc = "done" /\ inv'[p].result = "fatal"
         /\ inv'[p].inited = "no" /\ inv'[p].tool = NoTool
         /\ project' = project /\ cacheRoot' = cacheRoot]_vars

C16_Witness ==
  /\ script.kind = "dir"
  /\ inv["p1"].cmd = "build" /\ inv["p1"].pc = "done" /\ inv["p1"].result = "fatal"
  /\ inv["p1"].inited = "no"
  /\ ~project.exists /\ ~cacheRoot

AfterNew(r) == r.pc \in {"binary_built", "state", "clean"}

\* C18 as stated: after Cargo::new has returned successfully the manifest and
\* the manifest template Cargo.toml.orig both exist, and a project whose src
\* exists while the template is missing ends the process with an assertion
\* failure instead.
C18_TemplateAfterNew ==
  \A p \in Procs :
    /\ AfterNew(inv[p]) => project.exists /\ project.orig
    /\ (inv[p].pc \notin {"idle", "new", "clean_all"} /\ inv[p].inited = "no"
          /\ inv[p].st = "none" /\ project.exists /\ ~project.orig)
         => inv[p].result = "panic"

\* C19 as stated: the placeholder src/main.rs that cargo init writes is removed
\* when the project is scaffolded, so that the mirror holds nothing that sync
\* has not written.
C19_PlaceholderRemoved ==
  \A p \in Procs :
    (AfterNew(inv[p]) /\ inv[p].inited # "no" /\ inv[p].quiet) =>
      project.main # Placeholder

\* C20 as stated: hex_digest gives the same value on every call with the same
\* buffers, and for all distinct a and b hex_digest([a, b]) differs from
\* hex_digest([b, a]).
C20_OrderSensitive ==
  (call.fn = "hex_digest" /\ call.done) =>
    /\ call.ret[1] = call.ret[3]
    /\ call.arg[1] # call.arg[2] => call.ret[1] # call.ret[2]

\* C20, amended: hex_digest gives the same value on every call with the same
\* buffers, and hex_digest([a, b]) differs from hex_digest([b, a]) exactly
\* when the concatenation of a and b differs from that of b and a.
C20_OrderOfConcatenation ==
  (call.fn = "hex_digest" /\ call.done) =>
    /\ call.ret[1] = call.ret[3]
    /\ (call.arg[1] \o call.arg[2] # call.arg[2] \o call.arg[1])
         <=> call.ret[1] # call.ret[2]

C20_Witness ==
  /\ call.fn = "hex_digest" /\ call.done
  /\ call.arg = << <<"x">>, <<"y">> >>
  /\ call.ret[1] # call.ret[2] /\ call.ret[1] = call.ret[3]

\* C21: hex_digest over parts equals the digest of the parts concatenated in
\* call order, however the bytes are split into parts, and hex_digest_file
\* equals hex_digest of the whole content of the file, whatever the size of
\* the chunks the file is read in.
C21_DigestOfConcatenation ==
  (call.fn = "digest_split" /\ call.done) =>
    LET w == call.arg.bytes
        parts == SplitAt(w, call.arg.cut1, call.arg.cut2)
    IN /\ Concat(parts) = w
       /\ call.ret.parts = Sha256Hex(Concat(parts))
       /\ call.ret.parts = call.ret.whole
       /\ call.ret.file = call.ret.whole
       /\ call.ret.chunked = call.ret.whole

C21_Witness ==
  /\ call.fn = "digest_split" /\ call.done
  /\ call.arg = [bytes |-> <<"x", "y">>, cut1 |-> 1, cut2 |-> 1, chunk |-> 1]
  /\ call.ret.parts = call.ret.chunked

\* C22: on the exec and implicit exec paths execute does not return: once the
\* artifact is built the process is replaced by the staged artifact, or, when
\* the artifact cannot be executed, ends with a failure; it never ends
\* normally without the artifact having run.
C22_ExecuteNeverReturns ==
  /\ [](\A p \in Procs :
          inv[p].cmd \in {"exec", "implicit"} =>
            /\ inv[p].result # "ok"
            /\ inv[p].result = "execd" => is_file(inv[p].ran)
            /\ (inv[p].built /\ inv[p].pc = "done") =>
                  inv[p].result \in {"execd", "exec_failed"})
  /\ [][\A p \in Procs :
          (inv[p].pc = "execute" /\ inv'[p].pc # "execute") =>
            /\ inv'[p].pc = "done"
            /\ IF binary_built(project)
                 THEN inv'[p].result = "execd" /\ inv'[p].ran = project.binary
                 ELSE inv'[p].result = "exec_failed"]_vars

C22_Witness ==
  /\ inv["p1"].cmd = "exec" /\ inv["p1"].built /\ inv["p1"].result = "execd"
  /\ inv["p1"].ran = project.binary /\ inv["p1"].ran.complete

\* C23 as stated: the artifact is executed with its own file name as argument
\* zero, for every project name, followed by the caller's arguments in their
\* order.
C23_ArgZeroIsFileName ==
  (call.fn = "exec" /\ call.done) =>
    /\ call.ret[1] = binary_name(call.arg.file)
    /\ Tail(call.ret) = call.arg.args

\* The part of C23 that holds: the caller's arguments follow in their order,
\* and argument zero is the file name of the artifact when that name has no
\* dot after its first character.
C23_ArgZeroIsStem ==
  (call.fn = "exec" /\ call.done) =>
    /\ Tail(call.ret) = call.arg.args
    /\ (\A i \in 2..Len(binary_name(call.arg.file)) :
          binary_name(call.arg.file)[i] # ".")
         => call.ret[1] = binary_name(call.arg.file)

\* C24 as stated: on every initialized project, whatever the bytes of the
\* script, the mirror, the staged artifact and the modification times, state()
\* returns one of the four classifications and no error, and returns the same
\* when evaluated again on unchanged inputs.
C24_StateTotal ==
  (call.fn = "state" /\ call.done) =>
    call.ret[1] \in CargoStates /\ call.ret[2] = call.ret[1]

\* C24, amended: state() changes no file and returns the same when evaluated
\* again on unchanged inputs; on an initialized project it returns one of the
\* four classifications when the script holds UTF-8 text, and an error when
\* the script cannot be read as text.
C24_StateTotalOnText ==
  /\ []((call.fn = "state" /\ call.done) =>
          /\ call.ret[2] = call.ret[1]
          /\ ValidUtf8(script.content) => call.ret[1] \in CargoStates
          /\ ~ValidUtf8(script.content) => call.ret[1] = "Err")
  /\ [][call.fn = "state" => script' = script /\ project' = project]_vars

C24_Witness ==
  /\ call.fn = "state" /\ call.done
  /\ script.content = ScriptB /\ project.main = ScriptB
  /\ is_file(project.binary) /\ project.binary.mtime < script.mtime
  /\ call.ret = <<"BinaryOutdated", "BinaryOutdated">>

\* C25: the application identity is set once: the first initializer that takes
\* the lock fixes it, every later initializer leaves it unchanged, and every
\* directory lookup uses that identity.
C25_IdentitySetOnce ==
  /\ [](/\ app.info # NoInfo => app.info = app.first
        /\ \A t \in Threads :
             app.th[t].seen # NoInfo => app.th[t].seen = app.info)
  /\ [][/\ app.info # NoInfo => app'.info = app.info
        /\ \A t \in Threads :
             (app.th[t].pc = "lock_read" /\ app'.th[t].pc = "idle") =>
               app'.th[t].seen = app.first /\ app.first # NoInfo]_vars

\* Two threads raced to initialize, the loser then looked the directories up.
C25_Witness ==
  /\ app.info = [name |-> "n2", author |-> "a2"]
  /\ app.th["t1"].op = "project_dirs" /\ app.th["t1"].pc = "idle"
  /\ app.th["t1"].seen = app.info
  /\ app.th["t2"].op = "init_app_info_with" /\ app.th["t2"].pc = "unlock"

\* C26 as stated: app_cache creates the directory it returns when it is not
\* there, so that the cache directory exists once Cargo::new has asked for the
\* project path, and clean-all on a cache never used before succeeds.
C26_CacheDirCreated ==
  \A p \in Procs :
    /\ inv[p].pc \in {"init", "binary_built", "state", "clean"} => cacheRoot
    /\ (inv[p].cmd = "clean_all" /\ inv[p].pc = "done") => inv[p].result = "ok"

\* C27 as stated: stderr_is_tty() is true exactly when stderr is a terminal,
\* whatever stdout is.
C27_StderrIsTty ==
  (call.fn = "is_tty" /\ call.done) =>
    /\ call.ret.stderr = call.arg.Stderr
    /\ call.ret.stdout = call.arg.Stdout

\* The steps of an invocation that goes through ensure_built, in their order.
StepOrder ==
  <<"new", "init", "binary_built", "state", "update_main", "update_manifest",
    "build", "build_link", "rename", "execute", "done">>
Rank(pc) == CHOOSE i \in 1..Len(StepOrder) : StepOrder[i] = pc

\* C28: nothing is retried: within one invocation init, the sync of
\* ensure_built and the build each run at most once, the state is evaluated
\* once and decides both the sync and the build, and the first step that
\* fails ends the invocation, with a failure and without another attempt.
C28_NothingRetried ==
  [][\A p \in Procs :
       LET r == inv[p]
           n == inv'[p]
       IN (r.cmd \in {"exec", "build", "implicit"} /\ r.pc \notin {"idle", "done"}) =>
            /\ n.pc # r.pc => Rank(n.pc) > Rank(r.pc)
            /\ n.pc = r.pc => [n EXCEPT !.quiet = r.quiet] = r
            /\ r.st # "none" => n.st = r.st
            /\ (n.pc = "update_main" /\ r.pc # "update_main") =>
                  r.pc = "state" /\ needs_update(n.st)
            /\ (n.pc = "build" /\ r.pc # "build") =>
                  r.pc \in {"state", "update_manifest"} /\ needs_build(n.st)
            /\ (n.tool # NoTool \/ n.result \in {"fatal", "tool_exit", "panic", "exec_failed"}) =>
                  n.pc = "done" /\ n.result # "ok" /\ n.exit # 0]_vars

C28_Witness ==
  /\ inv["p1"].cmd = "build" /\ inv["p1"].pc = "done"
  /\ inv["p1"].st = "ScriptDiffers" /\ inv["p1"].synced /\ ~inv["p1"].built
  /\ inv["p1"].result = "tool_exit" /\ inv["p1"].exit = 1

\* C29 as stated: with one invocation at a time, whenever no invocation is
\* under way and state() returns UpToDate, the staged artifact was built from
\* a mirror and a manifest equal to the script's content and to the manifest
\* extracted from it.
C29_CacheCoherence ==
  (AtRest /\ project.exists /\ state(script, project) = "UpToDate") =>
    /\ project.binary.complete
    /\ project.binary.src = script.content
    /\ project.binary.man = manifest_content(script.content).val

\* C30 as stated: when an invocation has updated the mirror and its build has
\* failed, state() on the unchanged script does not return UpToDate: it
\* returns NoBinary when no artifact is staged and BinaryOutdated when an
\* artifact of an earlier build still is.
C30_FailedBuildNotUpToDate ==
  \A p \in Procs :
    (inv[p].pc = "done" /\ inv[p].synced /\ inv[p].phase = "ensure"
       /\ inv[p].tool # NoTool /\ inv[p].quiet) =>
      state(script, project) =
        (IF is_file(project.binary) THEN "BinaryOutdated" ELSE "NoBinary")

\* The part of C30 that holds: after a sync and a failed build state() is
\* NoBinary when no artifact is staged, and BinaryOutdated when the staged
\* artifact is older than the script.
C30_FailedBuildOlderArtifact ==
  \A p \in Procs :
    (inv[p].pc = "done" /\ inv[p].synced /\ inv[p].phase = "ensure"
       /\ inv[p].tool # NoTool /\ inv[p].quiet) =>
      /\ ~is_file(project.binary) => state(script, project) = "NoBinary"
      /\ (is_file(project.binary) /\ project.binary.mtime < script.mtime) =>
            state(script, project) = "BinaryOutdated"

\* The build tool of p, run by build(), ends without success in this step.
BuildFailsNow(p) ==
  /\ inv[p].pc \in {"build", "build_link"}
  /\ inv[p].tool = NoTool /\ inv'[p].tool # NoTool

\* C31: when the build tool fails in build(), in either mode, the step leaves
\* the staged artifact as it was (present or absent, same content, same
\* modification time) and ends the invocation, which has renamed nothing and
\* renames nothing afterwards.
C31_FailedBuildKeepsArtifact ==
  /\ [](\A p \in Procs : inv[p].tool # NoTool => (inv[p].pc = "done" /\ ~inv[p].built))
  /\ [][\A p \in Procs :
          BuildFailsNow(p) => /\ project'.binary = project.binary
                              /\ project'.target = project.target]_vars

C31_Witness ==
  /\ inv["p1"].pc = "done" /\ inv["p1"].cmd \in {"exec", "build"}
  /\ inv["p1"].st \in {"ScriptDiffers", "BinaryOutdated"}
  /\ inv["p1"].tool \in ToolFailures(CargoMode(inv["p1"].cmd))
  /\ is_file(project.binary) /\ project.binary.complete

\* Both invocations are over, both went through ensure_built with a state that
\* asks for a build, and no tool failed for either.
BothBuiltConcurrently ==
  \A p \in Procs :
    /\ inv[p].pc = "done" /\ inv[p].cmd \in {"implicit", "exec", "build"}
    /\ needs_build(inv[p].st) /\ inv[p].tool = NoTool

Succeeded(p) == inv[p].result \in {"ok", "execd"}

\* C32 as stated: when two invocations run ensure_built at the same time on
\* one project and the build tool succeeds for both, both rename into the
\* staged path and both complete successfully with the staged artifact present.
C32_BothRenameAndComplete ==
  BothBuiltConcurrently =>
    /\ \A p \in Procs : inv[p].built /\ Succeeded(p)
    /\ binary_built(project)

\* The part of C32 that holds: under every interleaving at least one of the
\* two renames into the staged path and completes, the staged artifact is
\* present and complete once both are over, and the other invocation either
\* renames and completes as well or fails at fs::rename, which happens only
\* when the tool's output is gone because the first has already moved it.
C32_OneRenamesOtherMayFail ==
  /\ [](BothBuiltConcurrently =>
          /\ \E p \in Procs : inv[p].built /\ Succeeded(p)
          /\ \A p \in Procs : \/ (inv[p].built /\ Succeeded(p))
                                \/ (~inv[p].built /\ inv[p].result = "fatal")
          /\ binary_built(project) /\ project.binary.complete)
  /\ [][\A p \in Procs :
          (/\ inv[p].pc = "rename" /\ inv'[p].result = "fatal"
           /\ \A q \in Procs : inv[q].cmd \in {"none", "implicit", "exec", "build"}) =>
            /\ project.exists /\ ~is_file(project.target)
            /\ \E q \in Procs \ {p} : inv[q].built]_vars

\* Both outcomes: the two renamed one after the other; one found the output
\* already moved.
C32_Witness ==
  /\ BothBuiltConcurrently
  /\ inv["p1"].built /\ Succeeded("p1")
  /\ ~inv["p2"].built /\ inv["p2"].result = "fatal"

C32_WitnessBoth ==
  BothBuiltConcurrently /\ \A p \in Procs : inv[p].built /\ Succeeded(p)

\* C33 as stated: two distinct canonical script paths, whatever their file
\* names, never resolve to the same project path.
C33_DistinctScriptsDistinctProjects ==
  (call.fn = "project_path" /\ call.done /\ call.arg[1] # call.arg[2]) =>
    call.ret[1] # call.ret[2]

\* The part of C33 that holds: two script paths resolve to the same project
\* path exactly when they have the same parent directory and the same file
\* stem; file names that differ only after the last dot share a project.
C33_DistinctPerParentAndStem ==
  (call.fn = "project_path" /\ call.done) =>
    LET a == call.arg[1]
        b == call.arg[2]
    IN (call.ret[1] = call.ret[2]) <=>
         (a.dir = b.dir /\ file_stem(a.file) = file_stem(b.file))

C33_Witness ==
  /\ call.fn = "project_path" /\ call.done
  /\ call.arg[1] = [dir |-> <<"a">>, file |-> <<"s", ".", "r", "s">>]
  /\ call.arg[2] = [dir |-> <<"a">>, file |-> <<"s">>]
  /\ call.ret[1] = call.ret[2]

\* ensure_built of p has returned Ok and nothing was changed from outside
\* since p was started.
EnsureBuiltReturnedOk(p) == EnsureBuiltOk(inv[p]) /\ inv[p].quiet

\* C34 as stated: once ensure_built has returned Ok, with the script and the
\* cache left alone, state() is UpToDate; and an invocation of exec, build or implicit
\* exec that meets state() = UpToDate, with nothing changed from outside,
\* reads UpToDate in ensure_built, runs no sync and no build, and leaves the
\* mirror, the manifest and the staged artifact as they are.
C34_EnsureBuiltIdempotent ==
  /\ [](\A p \in Procs :
          EnsureBuiltReturnedOk(p) => state(script, project) = "UpToDate")
  /\ [][\A p \in Procs :
          (/\ inv'[p].cmd \in {"implicit", "exec", "build"} /\ inv'[p].quiet
           /\ \/ inv[p].st = "UpToDate"
              \/ inv[p].st = "none" /\ state(script, project) = "UpToDate") =>
            /\ project' = project /\ script' = script
            /\ ~inv'[p].synced /\ ~inv'[p].built
            /\ inv'[p].st \in {"none", "UpToDate"}]_vars

\* The part of C34 that holds: once ensure_built has returned Ok, with the
\* script and the cache left alone, the mirror equals the script, an artifact
\* is staged, and state() is UpToDate unless the script is dated later than
\* the artifact, in which case it is BinaryOutdated; an invocation of exec,
\* build or implicit exec that meets state() = UpToDate, with nothing changed
\* from outside, reads UpToDate, runs no sync and no build, and leaves the
\* mirror, the manifest and the staged artifact as they are.
C34_IdempotentUnlessPostdated ==
  /\ [](\A p \in Procs :
          EnsureBuiltReturnedOk(p) =>
            /\ project.exists /\ project.main = script.content
            /\ is_file(project.binary)
            /\ state(script, project) =
                 (IF project.binary.mtime < script.mtime THEN "BinaryOutdated"
                  ELSE "UpToDate"))
  /\ [][\A p \in Procs :
          (/\ inv'[p].cmd \in {"implicit", "exec", "build"} /\ inv'[p].quiet
           /\ \/ inv[p].st = "UpToDate"
              \/ inv[p].st = "none" /\ state(script, project) = "UpToDate") =>
            /\ project' = project /\ script' = script
            /\ ~inv'[p].synced /\ ~inv'[p].built
            /\ inv'[p].st \in {"none", "UpToDate"}]_vars

\* The second of two invocations of build or exec, on a script and a cache no
\* one else touched, has read UpToDate and is over without sync or build.
C34_Witness ==
  /\ runs = 2 /\ edits = 0
  /\ inv["p1"].cmd \in {"exec", "build"} /\ inv["p1"].st = "UpToDate"
  /\ inv["p1"].pc = "done" /\ inv["p1"].result \in {"ok", "execd"}
  /\ ~inv["p1"].synced /\ ~inv["p1"].built
  /\ binary_built(project) /\ project.main = script.content

\* ensure_built has built and returned Ok on a script dated later than the
\* clock, and the artifact it staged counts as outdated.
C34_WitnessPostdated ==
  /\ EnsureBuiltReturnedOk("p1") /\ inv["p1"].built /\ inv["p1"].pc = "done"
  /\ script.mtime > now
  /\ state(script, project) = "BinaryOutdated"

\* C35: a step of a `check` or `test` invocation (nothing being changed from
\* outside) leaves the staged artifact and the build tool's release output as
\* they are, absent or present, and changes nothing of the project but the
\* mirrored source and the manifest (which cargo init creates with the project
\* directory when there is none); once `check` or `test` has succeeded the
\* mirror equals the script and the manifest equals the manifest extracted
\* from the script.
C35_CheckTestKeepArtifact ==
  /\ [](\A p \in Procs :
          (/\ inv[p].cmd \in {"check", "test"} /\ inv[p].pc = "done"
           /\ inv[p].result = "ok" /\ inv[p].quiet) =>
            /\ project.exists
            /\ project.main = script.content
            /\ project.manifest = manifest_content(script.content).val)
  /\ [][\A p \in Procs :
          (inv'[p].cmd \in {"check", "test"} /\ inv'[p].quiet) =>
            /\ script' = script
            /\ project'.binary = project.binary
            /\ project'.target = project.target
            /\ project'.orig = project.orig
            /\ (project'.exists # project.exists) =>
                  (inv[p].pc = "init" /\ project'.exists)
            /\ ~inv'[p].built]_vars

\* `check` or `test` has succeeded on a script edited since its artifact was
\* staged: the mirror follows the script, the artifact is the old one.
C35_Witness ==
  /\ inv["p1"].cmd \in {"check", "test"} /\ inv["p1"].pc = "done"
  /\ inv["p1"].result = "ok" /\ inv["p1"].quiet
  /\ is_file(project.binary) /\ project.binary.complete
  /\ project.binary.src # project.main
  /\ project.main = script.content

\* C36 as stated: `clean` of script a removes the project directory of a and
\* leaves the project of every other script b as it was, and `clean-all`
\* removes every project.
C36_CleanLeavesOtherScripts ==
  (call.fn = "clean" /\ call.done /\ call.arg.a # call.arg.b) =>
    /\ call.ret.clean[project_path(call.arg.a)] = NoProject
    /\ call.ret.clean[project_path(call.arg.b)] = call.arg.pb
    /\ \A d \in DOMAIN call.ret.clean_all : call.ret.clean_all[d] = NoProject

\* The part of C36 that holds: `clean` of script a removes the project
\* directory of a and leaves every other project directory as it was; the
\* project of another script b is such a directory unless b has the parent
\* directory and the file stem of a, in which case it is the directory
\* removed; `clean-all` removes every project.
C36_CleanLeavesOtherDirectories ==
  (call.fn = "clean" /\ call.done) =>
    LET a == call.arg.a
        b == call.arg.b
        shared == a.dir = b.dir /\ file_stem(a.file) = file_stem(b.file)
    IN /\ call.ret.clean[project_path(a)] = NoProject
       /\ \A d \in DOMAIN call.ret.before \ {project_path(a)} :
             call.ret.clean[d] = call.ret.before[d]
       /\ DOMAIN call.ret.clean = DOMAIN call.ret.before
       /\ ~shared => call.ret.clean[project_path(b)] = call.arg.pb
       /\ shared => call.ret.clean[project_path(b)] = NoProject
       /\ \A d \in DOMAIN call.ret.clean_all : call.ret.clean_all[d] = NoProject

\* Two scripts of one directory, both built: the project of the one cleaned
\* is gone, the other is as it was, and clean-all leaves neither.
C36_Witness ==
  /\ call.fn = "clean" /\ call.done
  /\ call.arg.a = [dir |-> <<"a">>, file |-> <<"s", ".", "r", "s">>]
  /\ call.arg.b = [dir |-> <<"a">>, file |-> <<"t", ".", "r", "s">>]
  /\ call.arg.pa = BuiltA /\ call.arg.pb = BuiltB
  /\ call.ret.clean[project_path(call.arg.a)] = NoProject
  /\ call.ret.clean[project_path(call.arg.b)] = BuiltB
  /\ call.ret.clean_all[project_path(call.arg.b)] = NoProject

\* Two scripts with one stem in one directory: cleaning one removes the
\* project the other was built in.
C36_WitnessShared ==
  /\ call.fn = "clean" /\ call.done
  /\ call.arg.a = [dir |-> <<"a">>, file |-> <<"s", ".", "r", "s">>]
  /\ call.arg.b = [dir |-> <<"a">>, file |-> <<"s">>]
  /\ call.arg.pb = BuiltB
  /\ call.ret.before[project_path(call.arg.b)] = BuiltB
  /\ call.ret.clean[project_path(call.arg.b)] = NoProject

====
